---- MODULE Spec2Model ----
\* ai-comments: the line scanner that inserts heuristic comments above
\* functions (src/src/index.js).  Text is modelled as a sequence of
\* one-character strings, so that split, join, trim and the regular
\* expressions of the source are computed rather than assumed.
EXTENDS Integers, Sequences, FiniteSets, TLC

\* ------------------------------------------------------------------
\* Characters and the character classes the source's patterns use
\* ------------------------------------------------------------------

LowerChars == <<"a","b","c","d","e","f","g","h","i","j","k","l","m",
                "n","o","p","q","r","s","t","u","v","w","x","y","z">>

UpperChars == <<"A","B","C","D","E","F","G","H","I","J","K","L","M",
                "N","O","P","Q","R","S","T","U","V","W","X","Y","Z">>

Range(f) == {f[k] : k \in DOMAIN f}

LowerSet == Range(LowerChars)

UpperSet == Range(UpperChars)

DigitSet == {"0","1","2","3","4","5","6","7","8","9"}

\* \w
WordChars == LowerSet \cup UpperSet \cup DigitSet \cup {"_"}

\* [a-zA-Z0-9_$]
IdentChars == WordChars \cup {"$"}

\* [a-zA-Z0-9_]
TailChars == WordChars

\* \s, and what String.prototype.trim strips
SpaceChars == {" ", "\t", "\r", "\n"}

PunctChars == {"(", ")", "{", "}", "[", "]", ".", ",", ";", ":", "=", ">",
               "/", "*", "$", "-", "+", "\""}

\* every character a modelled text can hold
Alphabet == WordChars \cup SpaceChars \cup PunctChars

\* [^)]
NotCloseParen == Alphabet \ {")"}

\* . (no s flag): anything but a line terminator
DotChars == Alphabet \ {"\n", "\r"}

\* ------------------------------------------------------------------
\* String primitives
\* ------------------------------------------------------------------

Min(a, b) == IF a < b THEN a ELSE b

\* String.prototype.startsWith
StartsWith(s, p) == Len(p) <= Len(s) /\ SubSeq(s, 1, Len(p)) = p

RECURSIVE TrimStart(_)
TrimStart(s) ==
  IF s # <<>> /\ Head(s) \in SpaceChars THEN TrimStart(Tail(s)) ELSE s

RECURSIVE TrimEnd(_)
TrimEnd(s) ==
  IF s # <<>> /\ s[Len(s)] \in SpaceChars
  THEN TrimEnd(SubSeq(s, 1, Len(s) - 1)) ELSE s

\* String.prototype.trim
Trim(s) == TrimEnd(TrimStart(s))

\* the first position at or after i that holds c, else Len(s) + 1
NextSeparator(s, c, i) ==
  CHOOSE j \in i..(Len(s) + 1) :
    /\ j = Len(s) + 1 \/ s[j] = c
    /\ \A k \in i..(j - 1) : s[k] # c

RECURSIVE SplitFrom(_, _, _)
RECURSIVE SplitAt(_, _, _, _)
SplitFrom(s, c, i) == SplitAt(s, c, i, NextSeparator(s, c, i))

SplitAt(s, c, i, j) ==
  IF j > Len(s) THEN <<SubSeq(s, i, Len(s))>>
  ELSE <<SubSeq(s, i, j - 1)>> \o SplitFrom(s, c, j + 1)

\* String.prototype.split on a one-character separator ("" gives [""])
Split(s, c) == SplitFrom(s, c, 1)

RECURSIVE Join(_, _)
\* Array.prototype.join
Join(ss, sep) ==
  IF ss = <<>> THEN <<>>
  ELSE IF Len(ss) = 1 THEN ss[1]
  ELSE ss[1] \o sep \o Join(Tail(ss), sep)

RECURSIVE Filter(_, _)
\* Array.prototype.filter(Boolean) on strings: drops the empty ones
Filter(ss, drop) ==
  IF ss = <<>> THEN <<>>
  ELSE IF Head(ss) = drop THEN Filter(Tail(ss), drop)
  ELSE <<Head(ss)>> \o Filter(Tail(ss), drop)

MapTrim(ss) == [k \in DOMAIN ss |-> Trim(ss[k])]

IndexOf(f, c) == CHOOSE k \in DOMAIN f : f[k] = c

\* String.prototype.toLowerCase on the modelled alphabet
ToLowerChar(c) == IF c \in UpperSet THEN LowerChars[IndexOf(UpperChars, c)] ELSE c

ToUpperChar(c) == IF c \in LowerSet THEN UpperChars[IndexOf(LowerChars, c)] ELSE c

ToLowerCase(s) == [k \in DOMAIN s |-> ToLowerChar(s[k])]

\* ------------------------------------------------------------------
\* Regular expressions: a pattern is a sequence of items, each a
\* character class with a quantifier, a word boundary or an end anchor
\* ------------------------------------------------------------------

One(S) == [k |-> "set", cls |-> S, q |-> "1"]

Star(S) == [k |-> "set", cls |-> S, q |-> "*"]

Plus(S) == [k |-> "set", cls |-> S, q |-> "+"]

Opt(S) == [k |-> "set", cls |-> S, q |-> "?"]

\* \b
WordBoundary == [k |-> "wb", cls |-> {}, q |-> "1"]

\* $ (no m flag)
EndAnchor == [k |-> "end", cls |-> {}, q |-> "1"]

\* a literal word
Lit(w) == [j \in DOMAIN w |-> One({w[j]})]

\* a literal word under the i flag
LitIgnoreCase(w) == [j \in DOMAIN w |-> One({ToLowerChar(w[j]), ToUpperChar(w[j])})]

RECURSIVE RunEnd(_, _, _)
\* the first position at or after i whose character is not in S
RunEnd(s, i, S) ==
  IF i <= Len(s) /\ s[i] \in S THEN RunEnd(s, i + 1, S) ELSE i

RECURSIVE FindAny(_, _, _)
\* the first position at or after i whose character is in S, else Len(s) + 1
FindAny(s, i, S) ==
  IF i <= Len(s) /\ s[i] \notin S THEN FindAny(s, i + 1, S) ELSE i

IsWordAt(s, i) == i >= 1 /\ i <= Len(s) /\ s[i] \in WordChars

AtBoundary(s, i) == IsWordAt(s, i - 1) # IsWordAt(s, i)

RECURSIVE Ends(_, _, _, _)
\* the positions at which items k.. of re can stop when started at i
Ends(re, k, s, i) ==
  IF k > Len(re) THEN {i}
  ELSE LET it == re[k] IN
    IF it.k = "wb" THEN (IF AtBoundary(s, i) THEN Ends(re, k + 1, s, i) ELSE {})
    ELSE IF it.k = "end" THEN (IF i = Len(s) + 1 THEN Ends(re, k + 1, s, i) ELSE {})
    ELSE LET m == RunEnd(s, i, it.cls)
             lo == IF it.q \in {"1", "+"} THEN i + 1 ELSE i
             hi == IF it.q \in {"1", "?"} THEN Min(m, i + 1) ELSE m
         IN UNION {Ends(re, k + 1, s, j) : j \in lo..hi}

\* a match that starts at position i
MatchesAt(re, s, i) == Ends(re, 1, s, i) # {}

\* RegExp.prototype.test of an unanchored pattern
Test(re, s) == \E i \in 1..(Len(s) + 1) : MatchesAt(re, s, i)

NoMatch == [matched |-> FALSE, group |-> <<>>]

\* the largest member of a set of positions
MaxOf(S) == CHOOSE x \in S : \A y \in S : y <= x

\* the smallest member of a set of positions
MinOf(S) == CHOOSE x \in S : \A y \in S : x <= y

\* the <<start, end>> pairs capture group 1 can take in a match of
\* pre(group)post started at position st
Candidates(pre, grp, post, s, st) ==
  UNION {{<<a, b>> : b \in {x \in Ends(<<grp>>, 1, s, a) : Ends(post, 1, s, x) # {}}} :
         a \in Ends(pre, 1, s, st)}

GroupFrom(s, a, cands) ==
  [matched |-> TRUE,
   group |-> SubSeq(s, a, MaxOf({c[2] : c \in {d \in cands : d[1] = a}}) - 1)]

\* Backtracking tries the longest run of a quantifier first, so the
\* group that wins is the one that starts and then ends furthest right
\* among those that let post match.
PickGroup(s, cands) ==
  IF cands = {} THEN NoMatch ELSE GroupFrom(s, MaxOf({c[1] : c \in cands}), cands)

\* RegExp.prototype.exec of pre(group)post started at position st: the
\* text of capture group 1
ExecAt(pre, grp, post, s, st) == PickGroup(s, Candidates(pre, grp, post, s, st))

ExecFrom(pre, grp, post, s, starts) ==
  IF starts = {} THEN NoMatch ELSE ExecAt(pre, grp, post, s, MinOf(starts))

\* exec of an unanchored pattern: the leftmost starting position wins
Exec(pre, grp, post, s) ==
  ExecFrom(pre, grp, post, s,
           {st \in 1..(Len(s) + 1) : MatchesAt(pre \o <<grp>> \o post, s, st)})

\* ------------------------------------------------------------------
\* The literal texts of the source
\* ------------------------------------------------------------------

txt_function == <<"f","u","n","c","t","i","o","n">>

txt_const == <<"c","o","n","s","t">>

txt_async == <<"a","s","y","n","c">>

txt_get == <<"g","e","t">>

txt_set == <<"s","e","t">>

txt_create == <<"c","r","e","a","t","e">>

txt_build == <<"b","u","i","l","d">>

txt_update == <<"u","p","d","a","t","e">>

txt_delete == <<"d","e","l","e","t","e">>

txt_remove == <<"r","e","m","o","v","e">>

txt_validate == <<"v","a","l","i","d","a","t","e">>

txt_send == <<"s","e","n","d">>

txt_fetch == <<"f","e","t","c","h">>

txt_load == <<"l","o","a","d">>

txt_calculate == <<"c","a","l","c","u","l","a","t","e">>

txt_compute == <<"c","o","m","p","u","t","e">>

txt_State == <<"S","t","a","t","e">>

txt_reset == <<"r","e","s","e","t">>

txt_resetField == <<"r","e","s","e","t","F","i","e","l","d">>

txt_closeModal == <<"c","l","o","s","e","M","o","d","a","l">>

txt_close == <<"c","l","o","s","e">>

txt_modal == <<"m","o","d","a","l">>

txt_openModal == <<"o","p","e","n","M","o","d","a","l">>

txt_open == <<"o","p","e","n">>

txt_axios == <<"a","x","i","o","s">>

txt_post == <<"p","o","s","t">>

txt_console == <<"c","o","n","s","o","l","e">>

txt_log == <<"l","o","g">>

txt_Handles == <<"H","a","n","d","l","e","s">>

txt_Gets == <<"G","e","t","s">>

txt_Sets == <<"S","e","t","s">>

txt_Creates == <<"C","r","e","a","t","e","s">>

txt_Updates == <<"U","p","d","a","t","e","s">>

txt_Deletes == <<"D","e","l","e","t","e","s">>

txt_Validates == <<"V","a","l","i","d","a","t","e","s">>

txt_Sends == <<"S","e","n","d","s">>

txt_Fetches == <<"F","e","t","c","h","e","s">>

txt_Calculates == <<"C","a","l","c","u","l","a","t","e","s">>

txt_thisFunction == <<"t","h","i","s"," ","f","u","n","c","t","i","o","n">>

txt_theRequestedOperation == <<"t","h","e"," ","r","e","q","u","e","s","t","e","d"," ","o","p","e","r","a","t","i","o","n">>

txt_updatesState == <<"u","p","d","a","t","e","s"," ","l","o","c","a","l"," ","s","t","a","t","e"," ","o","r"," ","f","o","r","m"," ","f","i","e","l","d","s">>

txt_resetsFields == <<"r","e","s","e","t","s"," ","r","e","l","a","t","e","d"," ","f","i","e","l","d","s"," ","o","r"," ","s","t","a","t","e">>

txt_closesModal == <<"c","l","o","s","e","s"," ","a"," ","m","o","d","a","l"," ","d","i","a","l","o","g">>

txt_opensModal == <<"o","p","e","n","s"," ","a"," ","m","o","d","a","l"," ","d","i","a","l","o","g">>

txt_performsHttp == <<"p","e","r","f","o","r","m","s"," ","a","n"," ","H","T","T","P"," ","r","e","q","u","e","s","t">>

txt_logsDebug == <<"l","o","g","s"," ","d","e","b","u","g"," ","i","n","f","o","r","m","a","t","i","o","n"," ","t","o"," ","t","h","e"," ","c","o","n","s","o","l","e">>

txt_It == <<"I","t"," ">>

txt_and == <<" ","a","n","d"," ">>

txt_commaSpace == <<","," ">>

txt_ItUses == <<"I","t"," ","u","s","e","s"," ">>

txt_asInputData == <<" ","a","s"," ","i","n","p","u","t"," ","d","a","t","a",".">>

txt_ItAccepts == <<"I","t"," ","a","c","c","e","p","t","s"," ">>

txt_toConfigure == <<" ","t","o"," ","c","o","n","f","i","g","u","r","e"," ","t","h","e"," ","b","e","h","a","v","i","o","r",".">>

txt_arrow == <<"=",">">>

txt_lineComment == <<"/","/">>

txt_blockComment == <<"/","*">>

txt_commentPrefix == <<"/","/"," ">>

\* ------------------------------------------------------------------
\* Function Detector (addCommentsToFileContents, the four patterns)
\* ------------------------------------------------------------------

\* /^function\s+([a-zA-Z0-9_$]+)\s*\(/
\* variant: the blank after the keyword optional, /^function\s*(...)\s*\(/
FunctionDeclPattern_optionalBlank ==
  [pre |-> Lit(txt_function) \o <<Star(SpaceChars)>>,
   grp |-> Plus(IdentChars),
   post |-> <<Star(SpaceChars), One({"("})>>]

FunctionDeclPattern ==
  [pre |-> Lit(txt_function) \o <<Plus(SpaceChars)>>,
   grp |-> Plus(IdentChars),
   post |-> <<Star(SpaceChars), One({"("})>>]

\* /^const\s+([a-zA-Z0-9_$]+)\s*=\s*\(/
ConstParenPattern ==
  [pre |-> Lit(txt_const) \o <<Plus(SpaceChars)>>,
   grp |-> Plus(IdentChars),
   post |-> <<Star(SpaceChars), One({"="}), Star(SpaceChars), One({"("})>>]

\* /^const\s+([a-zA-Z0-9_$]+)\s*=\s*async\s*\(/
ConstAsyncPattern ==
  [pre |-> Lit(txt_const) \o <<Plus(SpaceChars)>>,
   grp |-> Plus(IdentChars),
   post |-> <<Star(SpaceChars), One({"="}), Star(SpaceChars)>>
            \o Lit(txt_async) \o <<Star(SpaceChars), One({"("})>>]

\* /^const\s+([a-zA-Z0-9_$]+)\s*=\s*\w*\s*=>/
ConstArrowPattern ==
  [pre |-> Lit(txt_const) \o <<Plus(SpaceChars)>>,
   grp |-> Plus(IdentChars),
   post |-> <<Star(SpaceChars), One({"="}), Star(SpaceChars),
              Star(WordChars), Star(SpaceChars)>> \o Lit(txt_arrow)]

\* exec of a pattern anchored with ^
ExecAnchored(pat, s) == ExecAt(pat.pre, pat.grp, pat.post, s, 1)

\* a || b on match results
OrElse(m1, m2) == IF m1.matched THEN m1 ELSE m2

\* the || chain: the first pattern that matches supplies the match
functionMatch(trimmed) ==
  OrElse(ExecAnchored(FunctionDeclPattern, trimmed),
         OrElse(ExecAnchored(ConstParenPattern, trimmed),
                OrElse(ExecAnchored(ConstAsyncPattern, trimmed),
                       ExecAnchored(ConstArrowPattern, trimmed))))

\* ------------------------------------------------------------------
\* Heuristic Comment Generator (buildHeuristicComment)
\* ------------------------------------------------------------------

\* const name = functionName || "this function"
nameOf(functionName) == IF functionName = <<>> THEN txt_thisFunction ELSE functionName

\* the if / else-if chain over lower.startsWith(...)
verbOfLower(lower) ==
  IF StartsWith(lower, txt_get) THEN txt_Gets
  ELSE IF StartsWith(lower, txt_set) THEN txt_Sets
  ELSE IF StartsWith(lower, txt_create) \/ StartsWith(lower, txt_build) THEN txt_Creates
  ELSE IF StartsWith(lower, txt_update) THEN txt_Updates
  ELSE IF StartsWith(lower, txt_delete) \/ StartsWith(lower, txt_remove) THEN txt_Deletes
  ELSE IF StartsWith(lower, txt_validate) THEN txt_Validates
  ELSE IF StartsWith(lower, txt_send) THEN txt_Sends
  ELSE IF StartsWith(lower, txt_fetch) \/ StartsWith(lower, txt_load) THEN txt_Fetches
  ELSE IF StartsWith(lower, txt_calculate) \/ StartsWith(lower, txt_compute)
       THEN txt_Calculates
  ELSE txt_Handles

\* const lower = name.toLowerCase(); let verb = ...
verbOf(name) == verbOfLower(ToLowerCase(name))

\* snippet.split("\n")[0] || ""
firstLineOf(snippet) == Split(snippet, "\n")[1]

\* firstLine.match(/\(([^)]*)\)/)
paramMatch(firstLine) ==
  Exec(<<One({"("})>>, Star(NotCloseParen), <<One({")"})>>, firstLine)

\* (paramMatch && paramMatch[1].trim()) || "": no match leaves ""
paramsRawOf(firstLine) == Trim(paramMatch(firstLine).group)

\* paramsRaw && paramsRaw.split(",").map(trim).filter(Boolean).join(", ")
paramsOf(paramsRaw) ==
  IF paramsRaw = <<>> THEN <<>>
  ELSE Join(Filter(MapTrim(Split(paramsRaw, ",")), <<>>), txt_commaSpace)

\* p.split(/[:=]/)[0]
BeforeColonOrEquals(p) == SubSeq(p, 1, FindAny(p, 1, {":", "="}) - 1)

\* .map(p => p.trim().split(/[:=]/)[0].trim()).filter(Boolean)
namesOfTokens(ps) ==
  Filter([k \in DOMAIN ps |-> Trim(BeforeColonOrEquals(Trim(ps[k])))], <<>>)

\* params ? params.split(",").map(...).filter(Boolean) : []
paramNamesOf(params) ==
  IF params = <<>> THEN <<>> ELSE namesOfTokens(Split(params, ","))

\* x || fallback on strings
OrDefault(x, fallback) == IF x = <<>> THEN fallback ELSE x

\* .replace(/^[_$]/, "")
StripLeadingMark(a) == IF a # <<>> /\ Head(a) \in {"_", "$"} THEN Tail(a) ELSE a

\* name.replace(/^[a-z]+/, "").replace(/^[_$]/, "") || name
subjectOf(name) ==
  OrDefault(StripLeadingMark(SubSeq(name, RunEnd(name, 1, LowerSet), Len(name))), name)

RECURSIVE SplitCamel(_, _)
\* .replace(/([a-z0-9])([A-Z])/g, "$1 $2"), scanning from position i
SplitCamel(s, i) ==
  IF i > Len(s) THEN <<>>
  ELSE IF i < Len(s) /\ s[i] \in (LowerSet \cup DigitSet) /\ s[i + 1] \in UpperSet
       THEN <<s[i], " ", s[i + 1]>> \o SplitCamel(s, i + 2)
  ELSE <<s[i]>> \o SplitCamel(s, i + 1)

RECURSIVE SquashSeparators(_, _)
\* .replace(/[_-]+/g, " "), scanning from position i
SquashSeparators(s, i) ==
  IF i > Len(s) THEN <<>>
  ELSE IF s[i] \in {"_", "-"}
       THEN <<" ">> \o SquashSeparators(s, RunEnd(s, i, {"_", "-"}))
  ELSE <<s[i]>> \o SquashSeparators(s, i + 1)

\* subject.replace(...).replace(...).trim() || "the requested operation"
readableSubjectOf(subject) ==
  OrDefault(Trim(SquashSeparators(SplitCamel(subject, 1), 1)), txt_theRequestedOperation)

\* snippet.split("\n").slice(1).join("\n")
\* variant: the first line counted as part of the body
bodyOf_wholeSnippet(snippet) == snippet

bodyOf(snippet) == Join(Tail(Split(snippet, "\n")), <<"\n">>)

\* /\bset[A-Z][a-zA-Z0-9_]*\s*\(/
SetterCallPattern ==
  <<WordBoundary>> \o Lit(txt_set)
    \o <<One(UpperSet), Star(TailChars), Star(SpaceChars), One({"("})>>

\* /\bsetState\s*\(/
SetStatePattern ==
  <<WordBoundary>> \o Lit(txt_set) \o Lit(txt_State) \o <<Star(SpaceChars), One({"("})>>

\* /\breset[A-Z]?[a-zA-Z0-9_]*\s*\(/
ResetCallPattern ==
  <<WordBoundary>> \o Lit(txt_reset)
    \o <<Opt(UpperSet), Star(TailChars), Star(SpaceChars), One({"("})>>

\* /\bresetFields?\b/
ResetFieldsPattern ==
  <<WordBoundary>> \o Lit(txt_resetField) \o <<Opt({"s"}), WordBoundary>>

\* variant: closeModal called in any way, /\bcloseModal\s*\(/
CloseModalPattern_anyCall ==
  <<WordBoundary>> \o Lit(txt_closeModal) \o <<Star(SpaceChars), One({"("})>>

\* /\.closeModal\s*\(/
CloseModalPattern ==
  <<One({"."})>> \o Lit(txt_closeModal) \o <<Star(SpaceChars), One({"("})>>

\* /\bclose\s*\(\)/
CloseCallPattern ==
  <<WordBoundary>> \o Lit(txt_close) \o <<Star(SpaceChars), One({"("}), One({")"})>>

\* /modal/i
ModalPattern == LitIgnoreCase(txt_modal)

\* /\.openModal\s*\(/
OpenModalPattern ==
  <<One({"."})>> \o Lit(txt_openModal) \o <<Star(SpaceChars), One({"("})>>

\* /\bopen\s*\(\)/
OpenCallPattern ==
  <<WordBoundary>> \o Lit(txt_open) \o <<Star(SpaceChars), One({"("}), One({")"})>>

\* /\bfetch\s*\(/
FetchPattern == <<WordBoundary>> \o Lit(txt_fetch) \o <<Star(SpaceChars), One({"("})>>

\* /\baxios\./
AxiosPattern == <<WordBoundary>> \o Lit(txt_axios) \o <<One({"."})>>

\* /\.get\s*\(/
DotGetPattern == <<One({"."})>> \o Lit(txt_get) \o <<Star(SpaceChars), One({"("})>>

\* /\.post\s*\(/
DotPostPattern == <<One({"."})>> \o Lit(txt_post) \o <<Star(SpaceChars), One({"("})>>

\* /\bconsole\.log\b/
ConsoleLogPattern ==
  <<WordBoundary>> \o Lit(txt_console) \o <<One({"."})>> \o Lit(txt_log) \o <<WordBoundary>>

\* the condition of each if of the body scan
updatesStateFires(body) == Test(SetterCallPattern, body) \/ Test(SetStatePattern, body)

resetsFieldsFires(body) == Test(ResetCallPattern, body) \/ Test(ResetFieldsPattern, body)

closesModalFires(body) ==
  Test(CloseModalPattern, body) \/ (Test(CloseCallPattern, body) /\ Test(ModalPattern, body))

opensModalFires(body) ==
  Test(OpenModalPattern, body) \/ (Test(OpenCallPattern, body) /\ Test(ModalPattern, body))

performsHttpFires(body) ==
  \/ Test(FetchPattern, body)
  \/ Test(AxiosPattern, body)
  \/ Test(DotGetPattern, body)
  \/ Test(DotPostPattern, body)

logsDebugFires(body) == Test(ConsoleLogPattern, body)

\* effects, in the order the pushes are written
effectsOf(body) ==
  (IF updatesStateFires(body) THEN <<txt_updatesState>> ELSE <<>>)
  \o (IF resetsFieldsFires(body) THEN <<txt_resetsFields>> ELSE <<>>)
  \o (IF closesModalFires(body) THEN <<txt_closesModal>> ELSE <<>>)
  \o (IF opensModalFires(body) THEN <<txt_opensModal>> ELSE <<>>)
  \o (IF performsHttpFires(body) THEN <<txt_performsHttp>> ELSE <<>>)
  \o (IF logsDebugFires(body) THEN <<txt_logsDebug>> ELSE <<>>)

\* a pattern item put before the rest of a compiled pattern
Prepend(item, rest) == [ok |-> rest.ok, items |-> <<item>> \o rest.items]

\* what one pattern character outside a class stands for
ItemOf(c) ==
  IF c = "." THEN One(DotChars) ELSE IF c = "$" THEN EndAnchor ELSE One({c})

RECURSIVE CompileFrom(_, _)
RECURSIVE CompileClass(_, _, _)
\* new RegExp(p) read from position i, for the pattern syntax a modelled
\* parameter text can hold (no flags, so the web-compatible grammar):
\* "[" opens a character class that must be closed by "]", "." is any
\* character but a line terminator, "$" is the end anchor, and every
\* other character, a lone "]", "{" or "}" included, stands for itself.
\* ok = FALSE is the SyntaxError of an unterminated character class.
CompileFrom(p, i) ==
  IF i > Len(p) THEN [ok |-> TRUE, items |-> <<>>]
  ELSE IF p[i] = "[" THEN CompileClass(p, i, FindAny(p, i + 1, {"]"}))
  ELSE Prepend(ItemOf(p[i]), CompileFrom(p, i + 1))

\* the class opened at i and closed at j, if j is in p
CompileClass(p, i, j) ==
  IF j > Len(p) THEN [ok |-> FALSE, items |-> <<>>]
  ELSE Prepend(One({p[k] : k \in (i + 1)..(j - 1)}), CompileFrom(p, j + 1))

Bounded(c) == [ok |-> c.ok, items |-> <<WordBoundary>> \o c.items \o <<WordBoundary>>]

\* new RegExp(`\\b${p}\\b`)
paramRegex(p) == Bounded(CompileFrom(p, 1))

\* usedParams.push(p) in front of what the rest of the loop pushes
PushUsed(p, hit, rest) ==
  [threw |-> rest.threw,
   used |-> IF rest.threw THEN <<>> ELSE IF hit THEN <<p>> \o rest.used ELSE rest.used]

RECURSIVE usedParamsFrom(_, _, _)
RECURSIVE usedParamsStep(_, _, _, _)
\* the for loop over paramNames from index k: the names whose pattern
\* matches the body, or the exception of the first pattern that does
\* not compile
usedParamsFrom(paramNames, k, body) ==
  IF k > Len(paramNames) THEN [threw |-> FALSE, used |-> <<>>]
  ELSE usedParamsStep(paramNames, k, body, paramRegex(paramNames[k]))

\* one iteration: const paramRegex = new RegExp(...); if (paramRegex.test(body))
usedParamsStep(paramNames, k, body, re) ==
  IF ~re.ok THEN [threw |-> TRUE, used |-> <<>>]
  ELSE PushUsed(paramNames[k], Test(re.items, body),
                usedParamsFrom(paramNames, k + 1, body))

\* xs.length === 1 ? xs[0] : xs.slice(0, -1).join(", ") + " and " + xs[xs.length - 1]
JoinWithAnd(xs) ==
  IF Len(xs) = 1 THEN xs[1]
  ELSE Join(SubSeq(xs, 1, Len(xs) - 1), txt_commaSpace) \o txt_and \o xs[Len(xs)]

\* Sentence 1: `${verb} ${readableSubject}.`
actionSentence(verb, readableSubject) == verb \o <<" ">> \o readableSubject \o <<".">>

\* Sentence 2: if (effects.length > 0) push `It ${effectsText}.`
effectSentences(effects) ==
  IF Len(effects) > 0 THEN <<txt_It \o JoinWithAnd(effects) \o <<".">>>> ELSE <<>>

\* Sentence 3: if (usedParams.length > 0) ... else if (paramNames.length > 0) ...
paramSentences(usedParams, paramNames) ==
  IF Len(usedParams) > 0
  THEN <<txt_ItUses \o JoinWithAnd(usedParams) \o txt_asInputData>>
  ELSE IF Len(paramNames) > 0
  THEN <<txt_ItAccepts \o JoinWithAnd(paramNames) \o txt_toConfigure>>
  ELSE <<>>

\* variant: the parameter sentence pushed only when no effect fired
sentencesOf_exclusive(verb, readableSubject, effects, usedParams, paramNames) ==
  <<actionSentence(verb, readableSubject)>>
    \o (IF Len(effects) > 0 THEN effectSentences(effects)
        ELSE paramSentences(usedParams, paramNames))

\* the sentences array as the three pushes build it
sentencesOf(verb, readableSubject, effects, usedParams, paramNames) ==
  <<actionSentence(verb, readableSubject)>>
    \o effectSentences(effects)
    \o paramSentences(usedParams, paramNames)

\* what a call that threw leaves behind
Thrown ==
  [threw |-> TRUE, comment |-> <<>>, sentences |-> <<>>, effects |-> <<>>,
   usedParams |-> <<>>, paramNames |-> <<>>, body |-> <<>>]

\* the locals of a call that has not returned
Pending == [Thrown EXCEPT !.threw = FALSE]

\* return sentences.join(" ")
returned(sentences, effects, usedParams, paramNames, body) ==
  [threw |-> FALSE, comment |-> Join(sentences, <<" ">>), sentences |-> sentences,
   effects |-> effects, usedParams |-> usedParams, paramNames |-> paramNames,
   body |-> body]

\* lines 213-242, once the loop over paramNames has ended or thrown
assemble(verb, readableSubject, effects, up, paramNames, body) ==
  IF up.threw THEN Thrown
  ELSE returned(sentencesOf(verb, readableSubject, effects, up.used, paramNames),
                effects, up.used, paramNames, body)

\* lines 181-211: the body scan and the parameter loop
scanBody(verb, readableSubject, paramNames, body) ==
  assemble(verb, readableSubject, effectsOf(body),
           usedParamsFrom(paramNames, 1, body), paramNames, body)

\* lines 147-179, for the name chosen on line 145
describe(name, snippet) ==
  scanBody(verbOf(name), readableSubjectOf(subjectOf(name)),
           paramNamesOf(paramsOf(paramsRawOf(firstLineOf(snippet)))),
           bodyOf(snippet))

\* buildHeuristicComment(snippet, meta): the returned comment together
\* with the locals it was assembled from
buildHeuristicComment(snippet, functionName) == describe(nameOf(functionName), snippet)

\* generateCommentForSnippet(snippet, meta)
generateCommentForSnippet(snippet, functionName) ==
  buildHeuristicComment(snippet, functionName)

\* ------------------------------------------------------------------
\* File Transformer (addCommentsToFileContents, buildSnippet)
\* ------------------------------------------------------------------

\* buildSnippet's default maxLines
maxLines == 8

\* buildSnippet(lines, startIndex): lines[startIndex .. min(length,
\* startIndex + maxLines) - 1] joined by "\n"; startIndex counts from 0
buildSnippet(lines, startIndex) ==
  Join(SubSeq(lines, startIndex + 1, Min(Len(lines), startIndex + maxLines)), <<"\n">>)

\* out[out.length - 1] ?? ""
prevLineOf(out) == IF out = <<>> THEN <<>> ELSE out[Len(out)]

\* variant: only the // marker counts as a comment above
startsWithComment_lineOnly(t) == StartsWith(t, txt_lineComment)

startsWithComment(t) == StartsWith(t, txt_lineComment) \/ StartsWith(t, txt_blockComment)

\* prevLine.trim().startsWith("//") || prevLine.trim().startsWith("/*")
hasCommentAbove(prevLine) == startsWithComment(Trim(prevLine))

\* variant: the comment lines pushed without the // marker
prefixed_noMarker(cs) == cs

\* out.push(`// ${cLine}`) for each
prefixed(cs) == [k \in DOMAIN cs |-> txt_commentPrefix \o cs[k]]

\* if (comment): String(comment).split("\n").map(trim).filter(Boolean),
\* each pushed as `// ${cLine}`
commentLinesOf(comment) ==
  IF comment = <<>> THEN <<>> ELSE prefixed(Filter(MapTrim(Split(comment, "\n")), <<>>))

\* variant: the line pushed without its indentation
pushLine_trimmed(out, line) == Append(out, Trim(line))

\* out.push(line)
pushLine(out, line) == Append(out, line)

\* lines 102-109: the comment lines, then the line itself
emit(out, line, commentLines) ==
  [threw |-> FALSE, out |-> pushLine(out \o commentLines, line), pushed |-> commentLines]

\* lines 93-105, given what generateCommentForSnippet did
afterGenerate(out, line, g) ==
  IF g.threw THEN [threw |-> TRUE, out |-> out, pushed |-> <<>>]
  ELSE emit(out, line, commentLinesOf(g.comment))

\* lines 86-109, given the detector's answer for the line
afterDetect(lines, i, out, fm) ==
  IF fm.matched /\ ~hasCommentAbove(prevLineOf(out))
  THEN afterGenerate(out, lines[i + 1],
                     generateCommentForSnippet(buildSnippet(lines, i), fm.group))
  ELSE emit(out, lines[i + 1], <<>>)

\* one iteration of the for loop at index i (from 0): the new out and the
\* comment lines pushed, or the exception the generator raised
iteration(lines, i, out) ==
  afterDetect(lines, i, out, functionMatch(Trim(lines[i + 1])))

RECURSIVE loopFrom(_, _, _)
RECURSIVE loopStep(_, _, _)
\* the whole for loop from index i
loopFrom(lines, i, out) ==
  IF i >= Len(lines) THEN [threw |-> FALSE, out |-> out]
  ELSE loopStep(lines, i, iteration(lines, i, out))

loopStep(lines, i, r) ==
  IF r.threw THEN [threw |-> TRUE, out |-> <<>>] ELSE loopFrom(lines, i + 1, r.out)

\* return out.join("\n"), unless the loop threw
joined(r) == [threw |-> r.threw, text |-> IF r.threw THEN <<>> ELSE Join(r.out, <<"\n">>)]

\* addCommentsToFileContents(source, filePath) as one call: the text
\* returned, or the exception
addCommentsToFileContents(text) == joined(loopFrom(Split(text, "\n"), 0, <<>>))

\* ------------------------------------------------------------------
\* The lines the modelled files are made of
\* ------------------------------------------------------------------

\* function getTotal(items) {
line_getTotal == <<"f","u","n","c","t","i","o","n"," ","g","e","t","T","o","t","a","l","(","i","t","e","m","s",")"," ","{">>

\* return items.length;}
line_returnItems == <<"r","e","t","u","r","n"," ","i","t","e","m","s",".","l","e","n","g","t","h",";","}">>

\* // note
line_lineComment == <<"/","/"," ","n","o","t","e">>

\* /* note */
line_blockComment == <<"/","*"," ","n","o","t","e"," ","*","/">>

\* the opening line of a documentation block
line_docOpen == <<"/","*","*">>

\* the closing line of a documentation block
line_docClose == <<" ","*","/">>

\* an empty line
line_blank == <<>>

\*   const swap = ([a, b]) => {
line_swap == <<" "," ","c","o","n","s","t"," ","s","w","a","p"," ","="," ","(","[","a",","," ","b","]",")"," ","=",">"," ","{">>

\* const qux = x => {
line_qux == <<"c","o","n","s","t"," ","q","u","x"," ","="," ","x"," ","=",">"," ","{">>

LineCorpus ==
  {line_getTotal, line_returnItems, line_lineComment, line_blockComment,
   line_docOpen, line_docClose, line_blank, line_swap, line_qux}

\* the longest modelled file, in lines
MaxLines == 3

SourceTexts ==
  {Join(ls, <<"\n">>) : ls \in UNION {[1..n -> LineCorpus] : n \in 1..MaxLines}}

\* ------------------------------------------------------------------
\* The snippets the generator is called on: a detected first line and
\* the lines that follow it
\* ------------------------------------------------------------------

\* function updateName(name, age) {
head_updateName == <<"f","u","n","c","t","i","o","n"," ","u","p","d","a","t","e","N","a","m","e","(","n","a","m","e",","," ","a","g","e",")"," ","{">>

\* function updateName(name, age) { return name; }
head_oneLine == <<"f","u","n","c","t","i","o","n"," ","u","p","d","a","t","e","N","a","m","e","(","n","a","m","e",","," ","a","g","e",")"," ","{"," ","r","e","t","u","r","n"," ","n","a","m","e",";"," ","}">>

\* function sum([a, b]) {
head_sum == <<"f","u","n","c","t","i","o","n"," ","s","u","m","(","[","a",","," ","b","]",")"," ","{">>

\* function on($el, ...args) {
head_on == <<"f","u","n","c","t","i","o","n"," ","o","n","(","$","e","l",","," ",".",".",".","a","r","g","s",")"," ","{">>

\* function closeIt() {
head_closeIt == <<"f","u","n","c","t","i","o","n"," ","c","l","o","s","e","I","t","(",")"," ","{">>

\* const load_all = async (url = 1, cb: F) => {
head_loadAll == <<"c","o","n","s","t"," ","l","o","a","d","_","a","l","l"," ","="," ","a","s","y","n","c"," ","(","u","r","l"," ","="," ","1",","," ","c","b",":"," ","F",")"," ","=",">"," ","{">>

\* const pick = ({a, b}) => {
head_pick == <<"c","o","n","s","t"," ","p","i","c","k"," ","="," ","(","{","a",","," ","b","}",")"," ","=",">"," ","{">>

HeaderCorpus ==
  {head_updateName, head_oneLine, head_sum, head_on, head_closeIt,
   head_loadAll, head_pick}

\* return name; }
body_returnName == <<"r","e","t","u","r","n"," ","n","a","m","e",";"," ","}">>

\* this.closeModal();
body_memberClose == <<"t","h","i","s",".","c","l","o","s","e","M","o","d","a","l","(",")",";">>

\* closeModal();
body_bareCloseModal == <<"c","l","o","s","e","M","o","d","a","l","(",")",";">>

\* close();
body_close == <<"c","l","o","s","e","(",")",";">>

\* // the Modal
body_modalNote == <<"/","/"," ","t","h","e"," ","M","o","d","a","l">>

\* m.openModal(url)
body_memberOpen == <<"m",".","o","p","e","n","M","o","d","a","l","(","u","r","l",")">>

\* openModal();
body_bareOpenModal == <<"o","p","e","n","M","o","d","a","l","(",")",";">>

\* ui.open ();
body_open == <<"u","i",".","o","p","e","n"," ","(",")",";">>

\* setName(args, $el);
body_setName == <<"s","e","t","N","a","m","e","(","a","r","g","s",","," ","$","e","l",")",";">>

\* console.log(a, b)
body_log == <<"c","o","n","s","o","l","e",".","l","o","g","(","a",","," ","b",")">>

BodyCorpus ==
  {body_returnName, body_memberClose, body_bareCloseModal, body_close,
   body_modalNote, body_memberOpen, body_bareOpenModal, body_open,
   body_setName, body_log}

\* the most lines that follow the first line of a modelled snippet
MaxBodyLines == 2

SnippetLines ==
  {<<h>> \o bs : h \in HeaderCorpus,
                 bs \in UNION {[1..n -> BodyCorpus] : n \in 0..MaxBodyLines}}

\* ------------------------------------------------------------------
\* The lines the detector is run on
\* ------------------------------------------------------------------

\* function foo(a, b) {
ex_foo == <<"f","u","n","c","t","i","o","n"," ","f","o","o","(","a",","," ","b",")"," ","{">>

\* const bar = (x) => {
ex_bar == <<"c","o","n","s","t"," ","b","a","r"," ","="," ","(","x",")"," ","=",">"," ","{">>

\* const baz = async (x) => {
ex_baz == <<"c","o","n","s","t"," ","b","a","z"," ","="," ","a","s","y","n","c"," ","(","x",")"," ","=",">"," ","{">>

\* const qux = x => {
ex_qux == <<"c","o","n","s","t"," ","q","u","x"," ","="," ","x"," ","=",">"," ","{">>

\* (a, b) {
tail_params == <<"(","a",","," ","b",")"," ","{">>

\* = (x) => {
tail_paren == <<"="," ","(","x",")"," ","=",">"," ","{">>

\* = async (x) => {
tail_async == <<"="," ","a","s","y","n","c"," ","(","x",")"," ","=",">"," ","{">>

\* =async(
tail_asyncTight == <<"=","a","s","y","n","c","(">>

\* = x => {
tail_arrow == <<"="," ","x"," ","=",">"," ","{">>

\* =x=>
tail_arrowTight == <<"=","x","=",">">>

\* = =>
tail_noParam == <<"="," ","=",">">>

\* = async x => {
tail_asyncBare == <<"="," ","a","s","y","n","c"," ","x"," ","=",">"," ","{">>

\* = 1;
tail_value == <<"="," ","1",";">>

\* = function (x) {
tail_functionExpr == <<"="," ","f","u","n","c","t","i","o","n"," ","(","x",")"," ","{">>

\* = $x => {
tail_dollar == <<"="," ","$","x"," ","=",">"," ","{">>

\* (empty)
tail_nothing == <<>>

\* let
kw_let == <<"l","e","t">>

\* functions
kw_functions == <<"f","u","n","c","t","i","o","n","s">>

\* foo
name_foo == <<"f","o","o">>

\* $a_1
name_dollar == <<"$","a","_","1">>

\* no name
name_none == <<>>

\* a-b
name_dash == <<"a","-","b">>

\* the most blanks between two parts of a modelled line
MaxSpaces == 1

Blanks(n) == [k \in 1..n |-> " "]

DetectLines ==
  {ex_foo, ex_bar, ex_baz, ex_qux}
  \cup {Blanks(ind) \o kw \o Blanks(s1) \o nm \o Blanks(s2) \o tl :
          ind \in {0, 2},
          kw \in {txt_function, txt_const, kw_let, kw_functions},
          s1 \in 0..MaxSpaces,
          nm \in {name_foo, name_dollar, name_none, name_dash},
          s2 \in 0..MaxSpaces,
          tl \in {tail_params, tail_paren, tail_async, tail_asyncTight,
                  tail_arrow, tail_arrowTight, tail_noParam, tail_asyncBare,
                  tail_value, tail_functionExpr, tail_dollar, tail_nothing}}

\* ------------------------------------------------------------------
\* runCli and collectSourceFiles
\* ------------------------------------------------------------------

name_a_js == <<"a",".","j","s">>

name_lib == <<"l","i","b">>

name_b_ts == <<"b",".","t","s">>

name_node_modules == <<"n","o","d","e","_","m","o","d","u","l","e","s">>

name_c_js == <<"c",".","j","s">>

name_dot_git == <<".","g","i","t">>

name_d_js == <<"d",".","j","s">>

name_notes_md == <<"n","o","t","e","s",".","m","d">>

name_readme_md == <<"r","e","a","d","m","e",".","m","d">>

ext_js == <<".","j","s">>

ext_ts == <<".","t","s">>

ext_jsx == <<".","j","s","x">>

ext_tsx == <<".","t","s","x">>

\* [".js", ".ts", ".jsx", ".tsx"]
SourceExts == {ext_js, ext_ts, ext_jsx, ext_tsx}

FileEntry(name, id) == [kind |-> "file", name |-> name, id |-> id, entries |-> <<>>]

DirEntry(name, entries) == [kind |-> "dir", name |-> name, id |-> 0, entries |-> entries]

\* the directories process.cwd() holds, each with its entries in
\* readdirSync order; a file is named by its id
FileSystem ==
  [src |-> <<FileEntry(name_a_js, 1),
             DirEntry(name_lib, <<FileEntry(name_b_ts, 2)>>),
             DirEntry(name_node_modules, <<FileEntry(name_c_js, 3)>>),
             DirEntry(name_dot_git, <<FileEntry(name_d_js, 4)>>),
             FileEntry(name_notes_md, 5)>>,
   docs |-> <<FileEntry(name_readme_md, 6)>>]

FileIds == 1..6

RECURSIVE LastIndexOf(_, _, _)
\* the last position at or before i that holds c, else 0
LastIndexOf(s, c, i) ==
  IF i < 1 THEN 0 ELSE IF s[i] = c THEN i ELSE LastIndexOf(s, c, i - 1)

\* path.extname of a base name: from the last "." on, unless the name
\* has none or only starts with it
extFrom(name, d) == IF d <= 1 THEN <<>> ELSE SubSeq(name, d, Len(name))

extname(name) == extFrom(name, LastIndexOf(name, ".", Len(name)))

RECURSIVE walk(_, _)
\* walk(current) over the entries from index k: the ids pushed to result
walk(entries, k) ==
  IF k > Len(entries) THEN <<>>
  ELSE LET entry == entries[k] IN
       (IF entry.kind = "dir"
        THEN (IF entry.name = name_node_modules \/ StartsWith(entry.name, <<".">>)
              THEN <<>>
              ELSE walk(entry.entries, 1))
        ELSE (IF extname(entry.name) \in SourceExts THEN <<entry.id>> ELSE <<>>))
       \o walk(entries, k + 1)

\* collectSourceFiles(rootDir, exts)
collectSourceFiles(rootDir) == walk(FileSystem[rootDir], 1)

\* const targetDir = args[0] || "src"
targetDirOf(args) == IF args = <<>> \/ args[1] = "" THEN "src" ELSE args[1]

\* const dryRun = args.includes("--dry-run")
dryRunOf(args) == \E k \in DOMAIN args : args[k] = "--dry-run"

\* fs.existsSync(fullPath) && fs.statSync(fullPath).isDirectory()
isDirectory(targetDir) == targetDir \in DOMAIN FileSystem

\* variant: the write made in dry-run too
mayWrite_always(dryRun) == TRUE

\* updated !== original
needsUpdate(updated, original) == updated # original

\* in dry-run the write is skipped
mayWrite(dryRun) == ~dryRun

\* a text with no function, one with an uncommented function, one whose
\* function has a comment above, and one on which the generator throws
text_plain == line_returnItems

text_function == Join(<<line_getTotal, line_returnItems>>, <<"\n">>)

text_commented == Join(<<line_lineComment, line_getTotal>>, <<"\n">>)

text_throwing == Join(<<line_qux, line_swap>>, <<"\n">>)

FileTexts == {text_plain, text_function, text_commented, text_throwing}

ArgvChoices ==
  {<<>>, <<"src">>, <<"src", "--dry-run">>, <<"--dry-run">>,
   <<"--dry-run", "src">>, <<"docs">>, <<"missing">>}

\* ------------------------------------------------------------------
\* State
\* ------------------------------------------------------------------

VARIABLES
  source,      \* addCommentsToFileContents: the source argument
  lines,       \* const lines = source.split("\n")
  i,           \* the loop index
  out,         \* const out = []
  inserted,    \* history: the indices of out pushed as comment lines
  pushedBefore,\* history: per input line, the comment lines pushed before it
  pc,          \* where the call stands: start, loop, done, threw
  result,      \* the text returned
  pass,        \* 1 for the first call, 2 for the call on its own result
  firstResult, \* the text the first call returned
  snippet,     \* generateCommentForSnippet: the snippet argument
  functionName,\* meta.functionName
  generated,   \* the comment returned, with the locals it was built from
  genPc,       \* idle, called, returned, threw
  line,        \* the line of the loop body the detector looks at
  matchResult, \* functionMatch
  detPc,       \* idle, ready, done
  argv,        \* process.argv.slice(2)
  content,     \* the text of every file, by id
  disk0,       \* history: the text of every file when runCli started
  dryRun,      \* const dryRun
  files,       \* const files
  cursor,      \* the position of the for-of loop in files
  writes,      \* the ids fs.writeFileSync was called on, in order
  log,         \* the console lines, each its kind and file id
  exitCode,    \* the code process.exit was called with, -1 if none
  cliPc        \* idle, start, files, returned, exited

xfVars ==
  <<source, lines, i, out, inserted, pushedBefore, pc, result, pass, firstResult>>

genVars == <<snippet, functionName, generated, genPc>>

detVars == <<line, matchResult, detPc>>

cliVars == <<argv, content, disk0, dryRun, files, cursor, writes, log, exitCode, cliPc>>

vars == <<xfVars, genVars, detVars, cliVars>>

\* the components a specification does not run
XfIdle ==
  /\ source = <<>> /\ lines = <<>> /\ i = 0 /\ out = <<>> /\ inserted = {}
  /\ pushedBefore = <<>> /\ pc = "idle" /\ result = <<>> /\ pass = 1
  /\ firstResult = <<>>

GenIdle ==
  /\ snippet = <<>> /\ functionName = <<>> /\ generated = Pending /\ genPc = "idle"

DetIdle == line = <<>> /\ matchResult = NoMatch /\ detPc = "idle"

CliIdle ==
  /\ argv = <<>> /\ content = <<>> /\ disk0 = <<>> /\ dryRun = FALSE /\ files = <<>>
  /\ cursor = 0 /\ writes = <<>> /\ log = <<>> /\ exitCode = -1 /\ cliPc = "idle"

\* ------------------------------------------------------------------
\* addCommentsToFileContents, one loop iteration at a time
\* ------------------------------------------------------------------

XfInit ==
  /\ source \in SourceTexts
  /\ lines = <<>>
  /\ i = 0
  /\ out = <<>>
  /\ inserted = {}
  /\ pushedBefore = <<>>
  /\ pc = "start"
  /\ result = <<>>
  /\ pass = 1
  /\ firstResult = <<>>

\* lines 73-74: split the source, start with an empty out
Enter ==
  /\ pc = "start"
  /\ lines' = Split(source, "\n")
  /\ i' = 0
  /\ out' = <<>>
  /\ inserted' = {}
  /\ pushedBefore' = <<>>
  /\ pc' = "loop"
  /\ UNCHANGED <<source, result, pass, firstResult, genVars, detVars, cliVars>>

\* lines 76-110: one iteration of the loop
LoopBody ==
  /\ pc = "loop"
  /\ i < Len(lines)
  /\ \E r \in {iteration(lines, i, out)} :
       IF r.threw
       THEN /\ pc' = "threw"
            /\ UNCHANGED <<i, out, inserted, pushedBefore>>
       ELSE /\ out' = r.out
            /\ inserted' = inserted \cup ((Len(out) + 1)..(Len(out) + Len(r.pushed)))
            /\ pushedBefore' = Append(pushedBefore, r.pushed)
            /\ i' = i + 1
            /\ pc' = "loop"
  /\ UNCHANGED <<source, lines, result, pass, firstResult, genVars, detVars, cliVars>>

\* line 112: return out.join("\n")
Return ==
  /\ pc = "loop"
  /\ i >= Len(lines)
  /\ result' = Join(out, <<"\n">>)
  /\ pc' = "done"
  /\ UNCHANGED <<source, lines, i, out, inserted, pushedBefore, pass, firstResult,
                 genVars, detVars, cliVars>>

\* the transform applied again to the text it returned
Reapply ==
  /\ pc = "done"
  /\ pass = 1
  /\ firstResult' = result
  /\ source' = result
  /\ pass' = 2
  /\ pc' = "start"
  /\ UNCHANGED <<lines, i, out, inserted, pushedBefore, result,
                 genVars, detVars, cliVars>>

Init == XfInit /\ GenIdle /\ DetIdle /\ CliIdle

Next == Enter \/ LoopBody \/ Return \/ Reapply

Spec == Init /\ [][Next]_vars

\* ------------------------------------------------------------------
\* generateCommentForSnippet called as the loop body calls it
\* ------------------------------------------------------------------

\* lines 87-96: the snippet starts at a detected line, and the name
\* passed in meta is the detector's capture group
GenInit ==
  /\ \E ls \in SnippetLines :
       /\ snippet = Join(ls, <<"\n">>)
       /\ functionName = functionMatch(Trim(ls[1])).group
  /\ generated = Pending
  /\ genPc = "called"

Generate ==
  /\ genPc = "called"
  /\ generated' = generateCommentForSnippet(snippet, functionName)
  /\ genPc' = IF generated'.threw THEN "threw" ELSE "returned"
  /\ UNCHANGED <<snippet, functionName, xfVars, detVars, cliVars>>

InitGen == XfIdle /\ GenInit /\ DetIdle /\ CliIdle

NextGen == Generate

SpecGen == InitGen /\ [][NextGen]_vars

\* ------------------------------------------------------------------
\* The detector on one line (lines 77-84)
\* ------------------------------------------------------------------

DetInit ==
  /\ line \in DetectLines
  /\ matchResult = NoMatch
  /\ detPc = "ready"

Detect ==
  /\ detPc = "ready"
  /\ matchResult' = functionMatch(Trim(line))
  /\ detPc' = "done"
  /\ UNCHANGED <<line, xfVars, genVars, cliVars>>

InitDetect == XfIdle /\ GenIdle /\ DetInit /\ CliIdle

NextDetect == Detect

SpecDetect == InitDetect /\ [][NextDetect]_vars

\* ------------------------------------------------------------------
\* runCli (lines 8-40) under bin/ai-comments.js
\* ------------------------------------------------------------------

CliInit ==
  /\ argv \in ArgvChoices
  /\ \E t1 \in FileTexts, t2 \in FileTexts :
       content = [id \in FileIds |->
                    IF id = 1 THEN t1 ELSE IF id = 2 THEN t2 ELSE text_function]
  /\ disk0 = content
  /\ dryRun = FALSE
  /\ files = <<>>
  /\ cursor = 0
  /\ writes = <<>>
  /\ log = <<>>
  /\ exitCode = -1
  /\ cliPc = "start"

\* lines 9-25: read the arguments, check the target, collect the files
Start ==
  /\ cliPc = "start"
  /\ dryRun' = dryRunOf(argv)
  /\ IF ~isDirectory(targetDirOf(argv))
     THEN /\ log' = Append(log, [kind |-> "not-a-directory", file |-> 0])
          /\ exitCode' = 1
          /\ cliPc' = "exited"
          /\ UNCHANGED <<files, cursor>>
     ELSE /\ files' = collectSourceFiles(targetDirOf(argv))
          /\ exitCode' = exitCode
          /\ IF Len(files') = 0
             THEN /\ log' = Append(log, [kind |-> "no-files", file |-> 0])
                  /\ cliPc' = "returned"
                  /\ cursor' = cursor
             ELSE /\ log' = Append(log, [kind |-> "processing", file |-> 0])
                  /\ cliPc' = "files"
                  /\ cursor' = 1
  /\ UNCHANGED <<argv, content, disk0, writes, xfVars, genVars, detVars>>

\* lines 27-39: one file of the for-of loop; an exception of the
\* transform rejects runCli, which bin/ai-comments.js turns into exit 1
ProcessFile ==
  /\ cliPc = "files"
  /\ cursor <= Len(files)
  /\ \E file \in {files[cursor]} :
     \E original \in {content[file]} :
     \E r \in {addCommentsToFileContents(original)} :
        IF r.threw
        THEN /\ log' = Append(log, [kind |-> "error", file |-> 0])
             /\ exitCode' = 1
             /\ cliPc' = "exited"
             /\ UNCHANGED <<content, writes, cursor>>
        ELSE /\ IF needsUpdate(r.text, original)
                THEN IF mayWrite(dryRun)
                     THEN /\ content' = [content EXCEPT ![file] = r.text]
                          /\ writes' = Append(writes, file)
                          /\ log' = Append(log, [kind |-> "updated", file |-> file])
                     ELSE /\ log' = Append(log, [kind |-> "would-update", file |-> file])
                          /\ UNCHANGED <<content, writes>>
                ELSE UNCHANGED <<content, writes, log>>
             /\ cursor' = cursor + 1
             /\ UNCHANGED <<exitCode, cliPc>>
  /\ UNCHANGED <<argv, disk0, dryRun, files, xfVars, genVars, detVars>>

\* line 40: the loop is over and runCli resolves
Finish ==
  /\ cliPc = "files"
  /\ cursor > Len(files)
  /\ cliPc' = "returned"
  /\ UNCHANGED <<argv, content, disk0, dryRun, files, cursor, writes, log, exitCode,
                 xfVars, genVars, detVars>>

InitCli == XfIdle /\ GenIdle /\ DetIdle /\ CliInit

NextCli == Start \/ ProcessFile \/ Finish

SpecCli == InitCli /\ [][NextCli]_vars

\* ------------------------------------------------------------------
\* Vocabulary of the properties, written without the model's operators
\* ------------------------------------------------------------------

\* w stands in s at position k
OccursAt(w, s, k) == k >= 1 /\ k + Len(w) - 1 <= Len(s) /\ SubSeq(s, k, k + Len(w) - 1) = w

Contains(s, w) == \E k \in 1..(Len(s) + 1) : OccursAt(w, s, k)

EndsWith(s, w) == OccursAt(w, s, Len(s) - Len(w) + 1)

Members(xs) == {xs[k] : k \in DOMAIN xs}

AllIn(s, from, to, S) == \A k \in from..to : s[k] \in S

\* position j holds the "(" that follows position from, whitespace aside
OpensAt(s, from, j) ==
  j \in from..Len(s) /\ AllIn(s, from, j - 1, SpaceChars) /\ s[j] = "("

WordAt(s, k) == k \in DOMAIN s /\ s[k] \in WordChars

\* the trimmed line starts with // or /*
CommentPrefixed(l) ==
  \E k \in 1..Len(l) :
    /\ AllIn(l, 1, k - 1, SpaceChars)
    /\ k < Len(l)
    /\ l[k] = "/"
    /\ l[k + 1] \in {"/", "*"}

Detected(l) == functionMatch(Trim(l)).matched

RECURSIVE Kept(_, _, _)
\* the entries of o from index k on whose index is not in ins
Kept(o, ins, k) ==
  IF k > Len(o) THEN <<>>
  ELSE (IF k \in ins THEN <<>> ELSE <<o[k]>>) \o Kept(o, ins, k + 1)

RECURSIVE EmittedAt(_, _)
\* the index in out of input line k, given the comment lines pushed
\* before each line so far
EmittedAt(pb, k) == IF k = 0 THEN 0 ELSE EmittedAt(pb, k - 1) + Len(pb[k]) + 1

Running == pc \in {"loop", "done", "threw"}

\* ------------------------------------------------------------------
\* C1
\* ------------------------------------------------------------------

\* C1: at every point of the loop the lines of out that were not
\* pushed as comments are exactly the input lines handled so far, in
\* order and unchanged; every pushed comment line stands immediately
\* before a line the detector matches; and the returned text, split
\* into lines and with the pushed comment lines deleted, is the input's
\* sequence of lines.
C1_OriginalLinesKept ==
  Running =>
    /\ Kept(out, inserted, 1) = SubSeq(lines, 1, i)
    /\ \A k \in inserted :
         /\ k + 1 <= Len(out)
         /\ k + 1 \notin inserted
         /\ Detected(out[k + 1])
    /\ pc = "done" =>
         /\ i = Len(lines)
         /\ Kept(Split(result, "\n"), inserted, 1) = Split(source, "\n")

\* a finished first call that pushed a comment into a file of several lines
C1_Witness ==
  /\ pc = "done"
  /\ pass = 1
  /\ inserted # {}
  /\ Len(lines) >= 2
  /\ Len(out) > Len(lines)

\* ------------------------------------------------------------------
\* C2
\* ------------------------------------------------------------------

\* C2: the transform applied to its own result returns that result: the
\* second call pushes no comment line, does not throw, and returns the
\* text the first call returned.
C2_Idempotent ==
  pass = 2 =>
    /\ pc # "threw"
    /\ Running => inserted = {}
    /\ pc = "done" => result = firstResult

\* a second call that finished on a text holding a generated comment
C2_Witness ==
  /\ pass = 2
  /\ pc = "done"
  /\ \E k \in 1..Len(out) : StartsWith(out[k], txt_commentPrefix \o txt_Gets)

\* ------------------------------------------------------------------
\* C3
\* ------------------------------------------------------------------

\* the line emitted last before input line k was handled is a comment
PrevEmittedIsComment(k) ==
  /\ EmittedAt(pushedBefore, k - 1) >= 1
  /\ CommentPrefixed(out[EmittedAt(pushedBefore, k - 1)])

\* C3: for every input line handled, exactly one line, starting with
\* "// ", was pushed directly before it when the detector matches the
\* line and the line emitted last is absent or not prefixed by // or
\* /*; otherwise none was pushed.
C3_OneCommentWhenUncommented ==
  Running =>
    /\ Len(pushedBefore) = i
    /\ Len(out) = EmittedAt(pushedBefore, i)
    /\ \A k \in 1..i :
         /\ out[EmittedAt(pushedBefore, k)] = lines[k]
         /\ IF Detected(lines[k]) /\ ~PrevEmittedIsComment(k)
            THEN /\ Len(pushedBefore[k]) = 1
                 /\ StartsWith(pushedBefore[k][1], <<"/", "/", " ">>)
                 /\ out[EmittedAt(pushedBefore, k) - 1] = pushedBefore[k][1]
            ELSE pushedBefore[k] = <<>>

\* a file in which one detected line got its comment and another, with
\* a comment above, got none
C3_Witness ==
  /\ pc = "done"
  /\ \E k \in 1..i : Detected(lines[k]) /\ Len(pushedBefore[k]) = 1
  /\ \E k \in 2..i :
       Detected(lines[k]) /\ CommentPrefixed(lines[k - 1]) /\ pushedBefore[k] = <<>>

\* ------------------------------------------------------------------
\* C4
\* ------------------------------------------------------------------

\* the input lines directly before line k form a comment: a // line, a
\* one-line /* ... */, or a block opened by /* on an earlier line whose
\* last line, the one before k, closes it with */
PrecededByComment(ls, k) ==
  /\ k >= 2
  /\ \/ StartsWith(Trim(ls[k - 1]), <<"/", "/">>)
     \/ /\ StartsWith(Trim(ls[k - 1]), <<"/", "*">>)
        /\ EndsWith(Trim(ls[k - 1]), <<"*", "/">>)
        /\ Len(Trim(ls[k - 1])) >= 4
     \/ /\ EndsWith(Trim(ls[k - 1]), <<"*", "/">>)
        /\ \E j \in 1..(k - 2) :
             /\ StartsWith(Trim(ls[j]), <<"/", "*">>)
             /\ \A m \in j..(k - 2) : ~Contains(ls[m], <<"*", "/">>)

\* C4: no detected function line whose directly preceding lines form a
\* comment receives an inserted comment.
C4_CommentedFunctionUntouched ==
  Running =>
    \A k \in 1..Len(pushedBefore) :
      (Detected(lines[k]) /\ PrecededByComment(lines, k)) => pushedBefore[k] = <<>>

\* ------------------------------------------------------------------
\* C5
\* ------------------------------------------------------------------

\* the files runCli selects, and those whose transformed text differs
\* from the text they held when the run started
Selected(args) ==
  IF isDirectory(targetDirOf(args))
  THEN Members(collectSourceFiles(targetDirOf(args)))
  ELSE {}

Differs(r, original) == ~r.threw /\ r.text # original

Differing(args) ==
  {f \in Selected(args) : Differs(addCommentsToFileContents(disk0[f]), disk0[f])}

Logged(kind) == {log[k].file : k \in {j \in DOMAIN log : log[j].kind = kind}}

Written == Members(writes)

\* the files the for-of loop has been through
Handled == IF cliPc = "start" THEN {} ELSE {files[k] : k \in 1..(cursor - 1)}

\* C5: with --dry-run no file is written at any point of the run, and
\* every file handled whose transformed text differs has been reported
\* as would-be-updated; without --dry-run the files written are exactly
\* the files handled whose transformed text differs, each holding its
\* transformed text, and no other file is touched; a run that returns
\* has handled every selected file.
C5_DryRunGatesWrites ==
  /\ dryRunOf(argv) => (writes = <<>> /\ content = disk0)
  /\ Handled \subseteq Selected(argv)
  /\ cliPc = "returned" => Handled = Selected(argv)
  /\ IF dryRunOf(argv)
     THEN Logged("would-update") = Differing(argv) \cap Handled
     ELSE /\ Written = Differing(argv) \cap Handled
          /\ Logged("would-update") = {}
          /\ Logged("updated") = Written
  /\ \A f \in FileIds :
       content[f] = IF f \in Written
                    THEN addCommentsToFileContents(disk0[f]).text
                    ELSE disk0[f]

\* a dry run that returned after reporting a file and writing none
C5_Witness ==
  /\ cliPc = "returned"
  /\ dryRun
  /\ Logged("would-update") # {}
  /\ \E f \in Selected(argv) : f \notin Differing(argv)
  /\ writes = <<>>

\* ------------------------------------------------------------------
\* C6
\* ------------------------------------------------------------------

\* C6: generateCommentForSnippet, called on a snippet whose first line
\* the detector matches, never throws, and the comment it returns is not
\* empty.
C6_GenerationNeverThrows ==
  /\ genPc # "threw"
  /\ genPc = "returned" => generated.comment # <<>>

\* ------------------------------------------------------------------
\* C7
\* ------------------------------------------------------------------

RECURSIVE Listed(_)
\* one name, or the names separated by ", " with " and " before the last
Listed(xs) ==
  IF Len(xs) = 1 THEN xs[1]
  ELSE IF Len(xs) = 2 THEN xs[1] \o txt_and \o xs[2]
  ELSE xs[1] \o txt_commaSpace \o Listed(Tail(xs))

ItSentence(effects) == txt_It \o Listed(effects) \o <<".">>

UsesSentence(used) == txt_ItUses \o Listed(used) \o txt_asInputData

AcceptsSentence(names) == txt_ItAccepts \o Listed(names) \o txt_toConfigure

ParameterSentence(used, names) ==
  IF used # <<>> THEN <<UsesSentence(used)>>
  ELSE IF names # <<>> THEN <<AcceptsSentence(names)>>
  ELSE <<>>

RECURSIVE Spaced(_)
\* the sentences with one space between them
Spaced(ss) ==
  IF ss = <<>> THEN <<>>
  ELSE IF Len(ss) = 1 THEN ss[1]
  ELSE ss[1] \o <<" ">> \o Spaced(Tail(ss))

Verbs ==
  {txt_Handles, txt_Gets, txt_Sets, txt_Creates, txt_Updates, txt_Deletes,
   txt_Validates, txt_Sends, txt_Fetches, txt_Calculates}

\* a sentence of the form <Verb> <subject>.
IsActionSentence(st) ==
  /\ \E v \in Verbs : StartsWith(st, v \o <<" ">>) /\ Len(st) > Len(v) + 2
  /\ st[Len(st)] = "."

\* C7 as first stated: the action sentence is followed by at most one
\* further sentence: the effects sentence if an effect fired, else the
\* "uses" sentence if a parameter is used, else the "accepts" sentence
\* if there are parameters, else nothing.
C7_AtMostOneFurtherSentence ==
  genPc = "returned" =>
    /\ IsActionSentence(generated.sentences[1])
    /\ generated.comment =
         Spaced(<<generated.sentences[1]>>
                \o (IF generated.effects # <<>>
                    THEN <<ItSentence(generated.effects)>>
                    ELSE ParameterSentence(generated.usedParams, generated.paramNames)))

\* C7: the comment is the action sentence, then the effects sentence
\* if an effect fired, then -- whether or not an effect fired -- the
\* "uses" sentence if a parameter is used, else the "accepts" sentence if
\* there are parameters; one to three sentences, joined by one space.
C7_EffectThenParameterSentence ==
  genPc = "returned" =>
    /\ IsActionSentence(generated.sentences[1])
    /\ Len(generated.sentences) \in 1..3
    /\ generated.comment =
         Spaced(<<generated.sentences[1]>>
                \o (IF generated.effects # <<>>
                    THEN <<ItSentence(generated.effects)>> ELSE <<>>)
                \o ParameterSentence(generated.usedParams, generated.paramNames))

\* a comment of three sentences: an effect fired and a parameter is used
C7_Witness ==
  /\ genPc = "returned"
  /\ generated.effects # <<>>
  /\ generated.usedParams # <<>>
  /\ Len(generated.sentences) = 3
  /\ Contains(generated.comment, txt_ItUses)

\* ------------------------------------------------------------------
\* C8
\* ------------------------------------------------------------------

\* the text after the first line break, empty if there is none
AfterFirstLine(s) ==
  IF \E k \in DOMAIN s : s[k] = "\n"
  THEN SubSeq(s, 1 + (CHOOSE k \in DOMAIN s :
                        s[k] = "\n" /\ \A j \in 1..(k - 1) : s[j] # "\n"), Len(s))
  ELSE <<>>

\* the text after the first closing parenthesis, empty if there is none
AfterSignature(s) ==
  IF \E k \in DOMAIN s : s[k] = ")"
  THEN SubSeq(s, 1 + (CHOOSE k \in DOMAIN s :
                        s[k] = ")" /\ \A j \in 1..(k - 1) : s[j] # ")"), Len(s))
  ELSE <<>>

\* w stands in s with no word character directly before or after it
WholeWord(w, s) ==
  \E k \in 1..Len(s) :
    OccursAt(w, s, k) /\ ~WordAt(s, k - 1) /\ ~WordAt(s, k + Len(w))

IsWord(w) == w # <<>> /\ AllIn(w, 1, Len(w), WordChars)

txt_name == <<"n","a","m","e">>

txt_age == <<"a","g","e">>

sentence_usesName == <<"I","t"," ","u","s","e","s"," ","n","a","m","e"," ","a","s"," ","i","n","p","u","t"," ","d","a","t","a",".">>

comment_usesName == <<"U","p","d","a","t","e","s"," ","N","a","m","e","."," ","I","t"," ","u","s","e","s"," ","n","a","m","e"," ","a","s"," ","i","n","p","u","t"," ","d","a","t","a",".">>

comment_acceptsBoth == <<"U","p","d","a","t","e","s"," ","N","a","m","e","."," ","I","t"," ","a","c","c","e","p","t","s"," ","n","a","m","e"," ","a","n","d"," ","a","g","e"," ","t","o"," ","c","o","n","f","i","g","u","r","e"," ","t","h","e"," ","b","e","h","a","v","i","o","r",".">>

\* function updateName(name, age) { / return name; }
example_twoLines == head_updateName \o <<"\n">> \o body_returnName

\* C8 as first stated: for the one-line source
\* function updateName(name, age) { return name; } the comment holds
\* "It uses name as input data." and does not list age; a parameter is
\* reported as used exactly when its name is a whole word of the
\* function's body, the text after the signature; and the unused
\* parameters are listed only when none is used.
C8_UsedParametersOfTheBody ==
  genPc = "returned" =>
    /\ snippet = head_oneLine =>
         /\ Contains(generated.comment, sentence_usesName)
         /\ ~Contains(generated.comment, txt_age)
    /\ \A p \in Members(generated.paramNames) :
         IsWord(p) =>
           (p \in Members(generated.usedParams) <=> WholeWord(p, AfterSignature(snippet)))
    /\ Contains(generated.comment, txt_ItAccepts) => generated.usedParams = <<>>

\* C8: the body is the snippet's lines after the first. A parameter
\* whose name is made of word characters is reported as used exactly
\* when the name is a whole word of that body; a name that starts with $
\* followed by a word character is never reported as used; the used
\* names keep the order of the parameter list; and the unused parameters
\* are listed, all of them, only when none is used. So the two-line
\* function updateName(name, age) { / return name; } gives
\* "Updates Name. It uses name as input data.", and the same function on
\* one line gives "Updates Name. It accepts name and age to configure
\* the behavior."
C8_UsedParametersOfFollowingLines ==
  genPc = "returned" =>
    /\ \A p \in Members(generated.paramNames) :
         /\ IsWord(p) =>
              (p \in Members(generated.usedParams)
                 <=> WholeWord(p, AfterFirstLine(snippet)))
         /\ (Len(p) >= 2 /\ p[1] = "$" /\ p[2] \in WordChars) =>
              p \notin Members(generated.usedParams)
    /\ Members(generated.usedParams) \subseteq Members(generated.paramNames)
    /\ \A a, b \in DOMAIN generated.usedParams :
         a < b =>
           \E c, d \in DOMAIN generated.paramNames :
             /\ c < d
             /\ generated.paramNames[c] = generated.usedParams[a]
             /\ generated.paramNames[d] = generated.usedParams[b]
    /\ IF generated.usedParams # <<>>
       THEN /\ Contains(generated.comment, UsesSentence(generated.usedParams))
            /\ ~Contains(generated.comment, txt_ItAccepts)
       ELSE /\ ~Contains(generated.comment, txt_ItUses)
            /\ generated.paramNames # <<>> =>
                 Contains(generated.comment, AcceptsSentence(generated.paramNames))
    /\ snippet = example_twoLines => generated.comment = comment_usesName
    /\ snippet = head_oneLine => generated.comment = comment_acceptsBoth

\* the two-line example, with name reported and age left out
C8_Witness ==
  /\ genPc = "returned"
  /\ snippet = example_twoLines
  /\ generated.paramNames = <<txt_name, txt_age>>
  /\ generated.usedParams = <<txt_name>>

\* ------------------------------------------------------------------
\* C9
\* ------------------------------------------------------------------

\* the line without the blanks at its two ends
Stripped(l) ==
  IF \A k \in DOMAIN l : l[k] \in SpaceChars THEN <<>>
  ELSE SubSeq(l,
              CHOOSE a \in DOMAIN l :
                l[a] \notin SpaceChars /\ AllIn(l, 1, a - 1, SpaceChars),
              CHOOSE b \in DOMAIN l :
                l[b] \notin SpaceChars /\ AllIn(l, b + 1, Len(l), SpaceChars))

\* l starts with the keyword, one blank or more, and the name l[a..b]
Declares(l, kw, a, b) ==
  /\ StartsWith(l, kw)
  /\ a > Len(kw) + 1
  /\ a <= b
  /\ b <= Len(l)
  /\ AllIn(l, Len(kw) + 1, a - 1, SpaceChars)
  /\ AllIn(l, a, b, IdentChars)

\* position e holds the "=" that follows position from, blanks aside
AssignsAt(l, from, e) ==
  e \in from..Len(l) /\ AllIn(l, from, e - 1, SpaceChars) /\ l[e] = "="

\* function NAME (
FunctionShape(l, a, b) ==
  /\ Declares(l, txt_function, a, b)
  /\ \E j \in (b + 1)..Len(l) : OpensAt(l, b + 1, j)

\* const NAME = (
ConstParenShape(l, a, b) ==
  /\ Declares(l, txt_const, a, b)
  /\ \E e \in (b + 1)..Len(l) :
       /\ AssignsAt(l, b + 1, e)
       /\ \E j \in (e + 1)..Len(l) : OpensAt(l, e + 1, j)

\* const NAME = async (
ConstAsyncShape(l, a, b) ==
  /\ Declares(l, txt_const, a, b)
  /\ \E e \in (b + 1)..Len(l) :
       /\ AssignsAt(l, b + 1, e)
       /\ \E k \in (e + 1)..Len(l) :
            /\ AllIn(l, e + 1, k - 1, SpaceChars)
            /\ OccursAt(txt_async, l, k)
            /\ \E j \in (k + Len(txt_async))..Len(l) : OpensAt(l, k + Len(txt_async), j)

\* const NAME = <zero or more word characters> =>
ConstArrowShape(l, a, b) ==
  /\ Declares(l, txt_const, a, b)
  /\ \E e \in (b + 1)..Len(l) :
       /\ AssignsAt(l, b + 1, e)
       /\ \E w1 \in (e + 1)..Len(l) :
            /\ AllIn(l, e + 1, w1 - 1, SpaceChars)
            /\ \E w2 \in w1..Len(l) :
                 /\ AllIn(l, w1, w2 - 1, WordChars)
                 /\ \E j \in w2..Len(l) :
                      /\ AllIn(l, w2, j - 1, SpaceChars)
                      /\ OccursAt(txt_arrow, l, j)

HasShape(l, a, b) ==
  \/ FunctionShape(l, a, b)
  \/ ConstParenShape(l, a, b)
  \/ ConstAsyncShape(l, a, b)
  \/ ConstArrowShape(l, a, b)

name_bar == <<"b","a","r">>

name_baz == <<"b","a","z">>

name_qux == <<"q","u","x">>

\* C9: the detector matches the trimmed line exactly when the line has
\* one of the four shapes, and the name it captures is the NAME of that
\* shape; the four example lines are detected with the names foo, bar,
\* baz and qux.
C9_DetectorShapes ==
  detPc = "done" =>
    /\ matchResult.matched
         <=> \E a \in 1..Len(Stripped(line)) : \E b \in a..Len(Stripped(line)) :
               HasShape(Stripped(line), a, b)
    /\ \A a \in 1..Len(Stripped(line)) : \A b \in a..Len(Stripped(line)) :
         HasShape(Stripped(line), a, b) =>
           matchResult.group = SubSeq(Stripped(line), a, b)
    /\ ~matchResult.matched => matchResult.group = <<>>
    /\ line = ex_foo => matchResult = [matched |-> TRUE, group |-> name_foo]
    /\ line = ex_bar => matchResult = [matched |-> TRUE, group |-> name_bar]
    /\ line = ex_baz => matchResult = [matched |-> TRUE, group |-> name_baz]
    /\ line = ex_qux => matchResult = [matched |-> TRUE, group |-> name_qux]

\* an indented line of the third shape, detected with its name
C9_Witness ==
  /\ detPc = "done"
  /\ line # Stripped(line)
  /\ \E a \in 1..Len(Stripped(line)) : \E b \in a..Len(Stripped(line)) :
       ConstAsyncShape(Stripped(line), a, b) /\ matchResult.group = SubSeq(Stripped(line), a, b)
  /\ matchResult.matched

\* ------------------------------------------------------------------
\* C10
\* ------------------------------------------------------------------

\* w( with a "." directly before w
MemberCall(w, s) ==
  \E k \in 2..Len(s) :
    /\ OccursAt(w, s, k)
    /\ s[k - 1] = "."
    /\ \E j \in (k + Len(w))..Len(s) : OpensAt(s, k + Len(w), j)

\* w( with no word character directly before w: bare or after a "."
NamedCall(w, s) ==
  \E k \in 1..Len(s) :
    /\ OccursAt(w, s, k)
    /\ ~WordAt(s, k - 1)
    /\ \E j \in (k + Len(w))..Len(s) : OpensAt(s, k + Len(w), j)

\* w() with no word character directly before w: bare or after a "."
EmptyCall(w, s) ==
  \E k \in 1..Len(s) :
    /\ OccursAt(w, s, k)
    /\ ~WordAt(s, k - 1)
    /\ \E j \in (k + Len(w))..(Len(s) - 1) :
         OpensAt(s, k + Len(w), j) /\ s[j + 1] = ")"

\* w in any mix of upper and lower case
Mentions(w, s) == Contains(ToLowerCase(s), w)

\* C10 as first stated: "closes a modal dialog" is contributed exactly
\* when the lines after the first hold a call named closeModal, bare or
\* member, or hold close() together with the word modal in any case;
\* the same for "opens a modal dialog" with openModal and open().
C10_ModalCallByName ==
  genPc = "returned" =>
    /\ Contains(generated.comment, txt_closesModal)
         <=> \/ NamedCall(txt_closeModal, AfterFirstLine(snippet))
             \/ /\ EmptyCall(txt_close, AfterFirstLine(snippet))
                /\ Mentions(txt_modal, AfterFirstLine(snippet))
    /\ Contains(generated.comment, txt_opensModal)
         <=> \/ NamedCall(txt_openModal, AfterFirstLine(snippet))
             \/ /\ EmptyCall(txt_open, AfterFirstLine(snippet))
                /\ Mentions(txt_modal, AfterFirstLine(snippet))

\* C10: "closes a modal dialog" is contributed exactly when the lines
\* after the first hold a member call .closeModal( -- a "." directly
\* before the name -- or hold close(), bare or member, with empty
\* parentheses, together with the word modal in any case; a bare
\* closeModal( alone contributes nothing. The same for "opens a modal
\* dialog" with .openModal( and open().
C10_ModalMemberCall ==
  genPc = "returned" =>
    /\ Contains(generated.comment, txt_closesModal)
         <=> \/ MemberCall(txt_closeModal, AfterFirstLine(snippet))
             \/ /\ EmptyCall(txt_close, AfterFirstLine(snippet))
                /\ Mentions(txt_modal, AfterFirstLine(snippet))
    /\ Contains(generated.comment, txt_opensModal)
         <=> \/ MemberCall(txt_openModal, AfterFirstLine(snippet))
             \/ /\ EmptyCall(txt_open, AfterFirstLine(snippet))
                /\ Mentions(txt_modal, AfterFirstLine(snippet))
    /\ generated.effects # <<>> =>
         generated.sentences[2] = ItSentence(generated.effects)

\* a member call of closeModal that contributed the phrase, in a body
\* that holds no close()
C10_Witness ==
  /\ genPc = "returned"
  /\ MemberCall(txt_closeModal, AfterFirstLine(snippet))
  /\ ~EmptyCall(txt_close, AfterFirstLine(snippet))
  /\ Contains(generated.comment, txt_closesModal)

====
